---- MODULE Spec2Model ----
(***************************************************************************)
(* Mastery & progress analytics of Numinix.                                *)
(*                                                                         *)
(* Spec     : ProgressTrackingService.recordQuestionAttempt and            *)
(*            updateConceptMastery running as concurrent requests against  *)
(*            the question_attempts and concept_mastery tables.  Every     *)
(*            awaited database request is one atomic step.                 *)
(* SpecDiag : analyzeDiagnosticResults applied to bounded answer lists and *)
(*            question banks, run twice under independent oracle outcomes. *)
(***************************************************************************)
EXTENDS Integers, Sequences, FiniteSets, TLC

\* ------------------------------------------------------------------ bounds
MaxCalls == 3
MaxQuestions == 2
MaxAnswers == 2
LongLen == 10
MaxWeaknesses == 3
MaxGaps == 2
MaxPrerequisites == 2
MaxSaves == 3
MaxAttempts == 2
MaxRun == 5
MaxSessions == 2
MaxSessionCalls == 4
MaxReports == 2

\* ------------------------------------------------------------ value domains
Procs == {"p1", "p2"}
Users == {"u1"}
Chapters == {"ch1"}
Concepts == {"c1", "c2"}
TimeValues == {30, 90}
\* an optional field that is absent (chapter_id?, concept?)
NoValue == "undefined"

Keys == Users \X Chapters \X Concepts

VARIABLES
  question_attempts,  \* table question_attempts: row content -> number of rows
  concept_mastery,    \* table concept_mastery: set of rows, each with its id
  nextId,             \* the id gen_random_uuid() gives the next mastery row
  pc,                 \* per request: "idle", "lookup" or "write"
  call,               \* per request: the operation and its arguments
  existing,           \* per request: the rows bound to `existing` ({} is null)
  failed,             \* per request: the mastery persistence steps that failed
  lastReturn,         \* the latest return or throw, as its caller saw it
  calls,              \* requests started so far
  entry,              \* the entry point the callers of this run use
  okCalls,            \* per key: updateConceptMastery calls that returned
  overlapped          \* per key: a call started while another was in flight

masteryVars == <<question_attempts, concept_mastery, nextId, pc, call, existing,
                 failed, lastReturn, calls, entry, okCalls, overlapped>>

VARIABLES
  answers,            \* analyzeDiagnosticResults: the answers argument
  questions,          \* analyzeDiagnosticResults: the questions argument
  analysis            \* per run: the oracle's behaviour and the value returned

diagVars == <<answers, questions, analysis>>

VARIABLES
  chapter_diagnostics,  \* table chapter_diagnostics, in the order of insertion
  ai_recommendations,   \* number of rows of table ai_recommendations
  learning_paths,       \* table learning_paths: a set of rows
  pool,                 \* which diagnostics the callers submit in this behaviour
  savesLeft,            \* calls still to come; a lookup is the last one
  lastSave,             \* the last call of saveChapterDiagnostic and its outcome
  lastRead              \* the lookup made since the last save, and its outcome

pathVars == <<chapter_diagnostics, ai_recommendations, learning_paths, pool,
              savesLeft, lastSave, lastRead>>

VARIABLES
  attempt_rows,      \* table question_attempts with attempted_at, in query order
  study_sessions,    \* table study_sessions with started_at, in query order
  mastery_rows,      \* table concept_mastery with last_practiced_at
  progress_reports,  \* table progress_reports: a set of rows
  reportsLeft,       \* calls of generateProgressReport still to come
  lastReport         \* the last call of generateProgressReport and its outcome

reportVars == <<attempt_rows, study_sessions, mastery_rows, progress_reports,
                reportsLeft, lastReport>>

VARIABLES
  session_rows,  \* table study_sessions as startStudySession and
                 \* endStudySession write it, in the order of insertion
  now,           \* the clock: it advances with every call
  firstClose     \* per session id, the row as its first close left it

sessionVars == <<session_rows, now, firstClose>>

notMastery == <<diagVars, pathVars, reportVars, sessionVars>>
notDiag == <<masteryVars, pathVars, reportVars, sessionVars>>
notPath == <<masteryVars, diagVars, reportVars, sessionVars>>
notReport == <<masteryVars, diagVars, pathVars, sessionVars>>
notSession == <<masteryVars, diagVars, pathVars, reportVars>>

vars == <<masteryVars, diagVars, pathVars, reportVars, sessionVars>>

\* ------------------------------------------------------------- the schema
\* mastery_level decimal(3,2): the number c/n is stored rounded to two
\* decimals; a stored level is kept in hundredths (0.33 is 33).
Decimal_3_2(num, den) == (200 * num + den) \div (2 * den)

\* Math.min(1.0, correct / attempts) as the fraction <<num, den>>
MathMin1(correct, attempts) ==
  IF correct >= attempts THEN <<1, 1>> ELSE <<correct, attempts>>

\* Math.floor(timeSpent / 60)
FloorMinutes(timeSpent) == timeSpent \div 60

KeyOf(r) == <<r.user_id, r.chapter_id, r.concept>>

\* UNIQUE(user_id, chapter_id, concept)
UniqueViolationNone(table, row) == FALSE
UniqueViolation(table, row) == \E r \in table : KeyOf(r) = KeyOf(row)

\* .single(): the row when exactly one matches, otherwise data is null
Single(rows) == IF Cardinality(rows) = 1 THEN rows ELSE {}

\* .eq('user_id', ..).eq('chapter_id', ..).eq('concept', ..)
SelectMastery(table, userId, chapterId, concept) ==
  {r \in table : r.user_id = userId /\ r.chapter_id = chapterId /\ r.concept = concept}

\* --------------------------------------------------- updateConceptMastery
\* if (attempt.concept && attempt.chapter_id)
HasMasteryKeyCorrectOnly(attempt) ==
  attempt.concept # NoValue /\ attempt.chapter_id # NoValue /\ attempt.is_correct
HasMasteryKey(attempt) ==
  attempt.concept # NoValue /\ attempt.chapter_id # NoValue

\* the columns written by .update({...}) from the `existing` snapshot
UpdatedColumnsSwapped(e, isCorrect, timeSpent) ==
  LET newAttemptsCount == e.attempts_count + (IF isCorrect THEN 1 ELSE 0)
      newCorrectAttempts == e.correct_attempts + 1
      lvl == MathMin1(newCorrectAttempts, newAttemptsCount)
  IN [attempts_count |-> newAttemptsCount,
      correct_attempts |-> newCorrectAttempts,
      mastery_level |-> Decimal_3_2(lvl[1], lvl[2]),
      time_to_master_minutes |-> e.time_to_master_minutes + FloorMinutes(timeSpent)]
UpdatedColumnsStaleLevel(e, isCorrect, timeSpent) ==
  LET newAttemptsCount == e.attempts_count + 1
      newCorrectAttempts == e.correct_attempts + (IF isCorrect THEN 1 ELSE 0)
      lvl == MathMin1(e.correct_attempts, newAttemptsCount)
  IN [attempts_count |-> newAttemptsCount,
      correct_attempts |-> newCorrectAttempts,
      mastery_level |-> Decimal_3_2(lvl[1], lvl[2]),
      time_to_master_minutes |-> e.time_to_master_minutes + FloorMinutes(timeSpent)]
UpdatedColumns(e, isCorrect, timeSpent) ==
  LET newAttemptsCount == e.attempts_count + 1
      newCorrectAttempts == e.correct_attempts + (IF isCorrect THEN 1 ELSE 0)
      newMasteryLevel == MathMin1(newCorrectAttempts, newAttemptsCount)
  IN [attempts_count |-> newAttemptsCount,
      correct_attempts |-> newCorrectAttempts,
      mastery_level |-> Decimal_3_2(newMasteryLevel[1], newMasteryLevel[2]),
      time_to_master_minutes |-> e.time_to_master_minutes + FloorMinutes(timeSpent)]

\* .update(cols).eq('id', existing.id)
ApplyUpdate(table, e, cols) ==
  {IF r.id = e.id
     THEN [r EXCEPT !.attempts_count = cols.attempts_count,
                    !.correct_attempts = cols.correct_attempts,
                    !.mastery_level = cols.mastery_level,
                    !.time_to_master_minutes = cols.time_to_master_minutes]
     ELSE r : r \in table}

\* the row given to .insert({...}) when no record exists
NewRow(id, userId, chapterId, concept, isCorrect, timeSpent) ==
  [id |-> id, user_id |-> userId, chapter_id |-> chapterId, concept |-> concept,
   mastery_level |-> IF isCorrect THEN Decimal_3_2(1, 1) ELSE Decimal_3_2(0, 1),
   attempts_count |-> 1,
   correct_attempts |-> IF isCorrect THEN 1 ELSE 0,
   time_to_master_minutes |-> FloorMinutes(timeSpent)]

\* the row question_attempts keeps of an attempt (the columns read later)
AttemptRow(attempt) ==
  [user_id |-> attempt.user_id, chapter_id |-> attempt.chapter_id,
   concept |-> attempt.concept, is_correct |-> attempt.is_correct]

\* the (chapter_id, concept) an attempt carries: both, or one of them missing
AttemptShapes ==
  (Chapters \X Concepts) \cup {<<NoValue, "c1">>, <<"ch1", NoValue>>}

AttemptRows ==
  {a \in [user_id : Users, chapter_id : Chapters \cup {NoValue},
          concept : Concepts \cup {NoValue}, is_correct : BOOLEAN] :
     <<a.chapter_id, a.concept>> \in AttemptShapes}

\* the attempts a caller may hand to recordQuestionAttempt
Attempts ==
  {a \in [user_id : Users, chapter_id : Chapters \cup {NoValue},
          concept : Concepts \cup {NoValue}, is_correct : BOOLEAN,
          time_taken_seconds : TimeValues] :
     <<a.chapter_id, a.concept>> \in AttemptShapes}

InFlight(k) == {p \in Procs : pc[p] \in {"lookup", "write"} /\ KeyOf(call[p]) = k}

NoCall ==
  [op |-> "none", user_id |-> "u1", chapter_id |-> NoValue, concept |-> NoValue,
   is_correct |-> FALSE, time_taken_seconds |-> 30]

MasteryIdle ==
  /\ question_attempts = [a \in AttemptRows |-> 0]
  /\ concept_mastery = {}
  /\ nextId = 1
  /\ pc = [p \in Procs |-> "idle"]
  /\ call = [p \in Procs |-> NoCall]
  /\ existing = [p \in Procs |-> {}]
  /\ failed = [p \in Procs |-> {}]
  /\ lastReturn = [op |-> "none", chapter_id |-> NoValue, concept |-> NoValue,
                   result |-> "none", failed |-> {}, writes |-> 0]
  /\ calls = 0
  /\ okCalls = [k \in Keys |-> [n |-> 0, c |-> 0, minutes |-> 0]]
  /\ overlapped = [k \in Keys |-> FALSE]

\* the tables are empty and no request runs; the callers of this run use
\* one of the two entry points
MasteryInit ==
  /\ MasteryIdle
  /\ entry \in {"recordQuestionAttempt", "updateConceptMastery"}

\* no caller of the question attempts in this run
MasteryOff ==
  /\ MasteryIdle
  /\ entry = "none"

\* a request takes the first free slot (the slots are interchangeable)
FreeSlot(p) ==
  /\ pc[p] = "idle"
  /\ p = "p2" => pc["p1"] # "idle"

\* control enters updateConceptMastery for request p with arguments c
EnterUpdate(p, c) ==
  /\ pc' = [pc EXCEPT ![p] = "lookup"]
  /\ call' = [call EXCEPT ![p] = c]
  /\ overlapped' = [overlapped EXCEPT ![KeyOf(c)] = @ \/ InFlight(KeyOf(c)) # {}]
  /\ UNCHANGED lastReturn

\* request p of arguments c ends: `res` is "ok" for a normal return, otherwise
\* the error thrown to the caller; its locals are gone
Leave(p, c, res, failedSteps, rowsWritten) ==
  /\ lastReturn' = [op |-> c.op, chapter_id |-> c.chapter_id, concept |-> c.concept,
                    result |-> res, failed |-> failedSteps, writes |-> rowsWritten]
  /\ pc' = [pc EXCEPT ![p] = "idle"]
  /\ call' = [call EXCEPT ![p] = NoCall]
  /\ existing' = [existing EXCEPT ![p] = {}]
  /\ failed' = [failed EXCEPT ![p] = {}]

\* recordQuestionAttempt without `if (error) throw error` after the insert
RecordQuestionAttemptUnchecked(p, attempt, dbOk) ==
  LET c == [op |-> "record"] @@ attempt
  IN /\ entry = "recordQuestionAttempt"
     /\ FreeSlot(p)
     /\ calls < MaxCalls
     /\ calls' = calls + 1
     /\ UNCHANGED <<concept_mastery, nextId, entry, okCalls, notMastery>>
     /\ question_attempts' =
          IF dbOk THEN [question_attempts EXCEPT ![AttemptRow(attempt)] = @ + 1]
          ELSE question_attempts
     /\ IF HasMasteryKey(attempt)
          THEN /\ EnterUpdate(p, c)
               /\ UNCHANGED <<existing, failed>>
          ELSE /\ Leave(p, c, "ok", {}, 0)
               /\ UNCHANGED overlapped

\* recordQuestionAttempt: the insert into question_attempts, then either the
\* throw, the return, or the call of updateConceptMastery
RecordQuestionAttempt(p, attempt, dbOk) ==
  LET c == [op |-> "record"] @@ attempt
  IN /\ entry = "recordQuestionAttempt"
     /\ FreeSlot(p)
     /\ calls < MaxCalls
     /\ calls' = calls + 1
     /\ UNCHANGED <<concept_mastery, nextId, entry, okCalls, notMastery>>
     /\ IF ~dbOk
          THEN /\ Leave(p, c, "db_error", {}, 0)
               /\ UNCHANGED <<question_attempts, overlapped>>
          ELSE /\ question_attempts' =
                    [question_attempts EXCEPT ![AttemptRow(attempt)] = @ + 1]
               /\ IF HasMasteryKey(attempt)
                    THEN /\ EnterUpdate(p, c)
                         /\ UNCHANGED <<existing, failed>>
                    ELSE /\ Leave(p, c, "ok", {}, 0)
                         /\ UNCHANGED overlapped

\* updateConceptMastery called on its own
UpdateConceptMastery(p, userId, chapterId, concept, isCorrect, timeSpent) ==
  LET c == [op |-> "update", user_id |-> userId, chapter_id |-> chapterId,
            concept |-> concept, is_correct |-> isCorrect,
            time_taken_seconds |-> timeSpent]
  IN /\ entry = "updateConceptMastery"
     /\ FreeSlot(p)
     /\ calls < MaxCalls
     /\ calls' = calls + 1
     /\ EnterUpdate(p, c)
     /\ UNCHANGED <<question_attempts, concept_mastery, nextId, existing, failed,
                    entry, okCalls, notMastery>>

\* const { data: existing } = await ... .single(): the error is not read
MasteryLookup(p, dbOk) ==
  /\ pc[p] = "lookup"
  /\ existing' = [existing EXCEPT ![p] =
       IF dbOk
         THEN Single(SelectMastery(concept_mastery, call[p].user_id,
                                   call[p].chapter_id, call[p].concept))
         ELSE {}]
  /\ failed' = [failed EXCEPT ![p] = IF dbOk THEN @ ELSE @ \cup {"lookup"}]
  /\ pc' = [pc EXCEPT ![p] = "write"]
  /\ UNCHANGED <<question_attempts, concept_mastery, nextId, call, lastReturn,
                 calls, entry, okCalls, overlapped, notMastery>>

\* the write went through: updateConceptMastery (and recordQuestionAttempt
\* around it) returns
Returned(p, rowsWritten) ==
  /\ Leave(p, call[p], "ok", failed[p], rowsWritten)
  /\ okCalls' = [okCalls EXCEPT ![KeyOf(call[p])] =
       [n |-> @.n + 1,
        c |-> @.c + (IF call[p].is_correct THEN 1 ELSE 0),
        minutes |-> @.minutes + FloorMinutes(call[p].time_taken_seconds)]]

\* if (error) throw error; caught, logged and thrown again up to the caller
Thrown(p, step, error) ==
  /\ Leave(p, call[p], error, failed[p] \cup {step}, 0)
  /\ UNCHANGED <<concept_mastery, nextId, okCalls>>

\* if (existing) { ... .update(...).eq('id', existing.id) }
MasteryUpdate(p, dbOk) ==
  /\ pc[p] = "write"
  /\ existing[p] # {}
  /\ UNCHANGED <<question_attempts, calls, entry, overlapped, notMastery>>
  /\ LET e == CHOOSE r \in existing[p] : TRUE
         cols == UpdatedColumns(e, call[p].is_correct, call[p].time_taken_seconds)
     IN IF dbOk
          THEN /\ concept_mastery' = ApplyUpdate(concept_mastery, e, cols)
               /\ Returned(p, Cardinality({r \in concept_mastery : r.id = e.id}))
               /\ UNCHANGED nextId
          ELSE Thrown(p, "update", "db_error")

\* else { ... .insert({...}) }
MasteryInsert(p, dbOk) ==
  /\ pc[p] = "write"
  /\ existing[p] = {}
  /\ UNCHANGED <<question_attempts, calls, entry, overlapped, notMastery>>
  /\ LET row == NewRow(nextId, call[p].user_id, call[p].chapter_id, call[p].concept,
                       call[p].is_correct, call[p].time_taken_seconds)
     IN IF ~dbOk
          THEN Thrown(p, "insert", "db_error")
          ELSE IF UniqueViolation(concept_mastery, row)
                 THEN Thrown(p, "insert", "23505")
                 ELSE /\ concept_mastery' = concept_mastery \cup {row}
                      /\ nextId' = nextId + 1
                      /\ Returned(p, 1)

\* ------------------------------------------------ analyzeDiagnosticResults
Topics == {"T1", "T2"}
QIds == 1..MaxQuestions
Runs == {"first", "second"}

\* what the recommendation oracle does in one run
OracleOutcomes ==
  {[kind |-> "network_error", recs |-> <<>>],
   [kind |-> "not_ok", recs |-> <<>>],
   [kind |-> "no_text", recs |-> <<>>],
   [kind |-> "unparsable", recs |-> <<>>],
   [kind |-> "not_array", recs |-> <<>>],
   [kind |-> "array", recs |-> <<"advice">>]}

SeqsUpTo(S, n) == UNION {[1..k -> S] : k \in 0..n}

Range(f) == {f[i] : i \in DOMAIN f}

\* question banks: every question has its own id
QuestionBanks ==
  {b \in SeqsUpTo([id : QIds, topic : Topics], MaxQuestions) :
     \A i \in DOMAIN b, j \in DOMAIN b : i # j => b[i].id # b[j].id}

AnswerLists == SeqsUpTo([questionId : QIds, correct : BOOLEAN], MaxAnswers)

\* a long test on one topic, answered in the order of the bank
LongTests ==
  {<<[i \in 1..LongLen |-> [questionId |-> i, correct |-> c[i]]],
     [i \in 1..LongLen |-> [id |-> i, topic |-> "T1"]]>> :
     c \in [1..LongLen -> BOOLEAN]}

DiagInputs == (AnswerLists \X QuestionBanks) \cup LongTests

\* const question = questions[index]; if (!question) return;
QuestionByIdOf(as, qs, index) ==
  {q \in Range(qs) : q.id = as[index].questionId}
QuestionOf(as, qs, index) ==
  IF index <= Len(qs) THEN {qs[index]} ELSE {}

\* topicScores[topic].total++; if (answer.correct) topicScores[topic].correct++
\* on the entries in the order their keys were created
BumpTopic(scores, topic, correct) ==
  LET add == IF correct THEN 1 ELSE 0
  IN IF \E i \in DOMAIN scores : scores[i].topic = topic
       THEN [i \in DOMAIN scores |->
               IF scores[i].topic = topic
                 THEN [scores[i] EXCEPT !.total = @ + 1, !.correct = @ + add]
                 ELSE scores[i]]
       ELSE Append(scores, [topic |-> topic, correct |-> add, total |-> 1])

\* answers.forEach((answer, index) => ...) over the first n answers
RECURSIVE TopicScoresUpTo(_, _, _)
TopicScoresUpTo(as, qs, n) ==
  IF n = 0 THEN <<>>
  ELSE LET prev == TopicScoresUpTo(as, qs, n - 1)
           question == QuestionOf(as, qs, n)
       IN IF question = {} THEN prev
          ELSE BumpTopic(prev, (CHOOSE q \in question : TRUE).topic, as[n].correct)

TopicScores(as, qs) == TopicScoresUpTo(as, qs, Len(as))

\* percentage = (correct / total) * 100 against the thresholds
IsStrength(correct, total) == 100 * correct >= 80 * total
IsWeakness(correct, total) ==
  ~(100 * correct >= 80 * total) /\ ~(100 * correct >= 50 * total)
IsGapBelow60(correct, total) == 100 * correct < 60 * total
IsGap(correct, total) == 100 * correct < 30 * total

TopicsOf(scores) == [i \in DOMAIN scores |-> scores[i].topic]

Strengths(scores) ==
  TopicsOf(SelectSeq(scores, LAMBDA e : IsStrength(e.correct, e.total)))
Weaknesses(scores) ==
  TopicsOf(SelectSeq(scores, LAMBDA e : IsWeakness(e.correct, e.total)))
Gaps(scores) ==
  TopicsOf(SelectSeq(scores, LAMBDA e : IsGap(e.correct, e.total)))

\* answers.filter(a => a.correct).length
Score(as) == Cardinality({i \in DOMAIN as : as[i].correct})

Message(kind, score, total, topic) ==
  [kind |-> kind, score |-> score, total |-> total, topic |-> topic]

FallbackLastWeakness(strengths, weaknesses, score, totalQuestions) ==
  <<Message("You scored", score, totalQuestions, ""),
    Message("Focus on daily practice", 0, 0, ""),
    Message("Don't worry about mistakes", 0, 0, "")>>
  \o (IF Len(strengths) > 0
        THEN <<Message("You're doing great with", 0, 0, strengths[1])>> ELSE <<>>)
  \o (IF Len(weaknesses) > 0
        THEN <<Message("Let's work on", 0, 0, weaknesses[Len(weaknesses)])>>
        ELSE <<>>)
FallbackRecommendations(strengths, weaknesses, score, totalQuestions) ==
  <<Message("You scored", score, totalQuestions, ""),
    Message("Focus on daily practice", 0, 0, ""),
    Message("Don't worry about mistakes", 0, 0, "")>>
  \o (IF Len(strengths) > 0
        THEN <<Message("You're doing great with", 0, 0, strengths[1])>> ELSE <<>>)
  \o (IF Len(weaknesses) > 0
        THEN <<Message("Let's work on", 0, 0, weaknesses[1])>> ELSE <<>>)

GenerateRecommendationsUncaught(strengths, weaknesses, gaps, score, totalQuestions, oracle) ==
  IF oracle.kind = "array"
    THEN [i \in DOMAIN oracle.recs |-> Message(oracle.recs[i], 0, 0, "")]
    ELSE IF oracle.kind = "unparsable"
      THEN <<Message("SyntaxError", 0, 0, "")>>
      ELSE FallbackRecommendations(strengths, weaknesses, score, totalQuestions)
\* the oracle's array when it gave one, the fallback list on every failure
GenerateRecommendations(strengths, weaknesses, gaps, score, totalQuestions, oracle) ==
  IF oracle.kind = "array"
    THEN [i \in DOMAIN oracle.recs |-> Message(oracle.recs[i], 0, 0, "")]
    ELSE FallbackRecommendations(strengths, weaknesses, score, totalQuestions)

AnalyzeOracleFirst(as, qs, oracle) ==
  LET scores == IF oracle.kind = "array" THEN TopicScores(as, qs) ELSE <<>>
  IN [score |-> Score(as),
      total_questions |-> Len(qs),
      strengths |-> Strengths(scores),
      weaknesses |-> Weaknesses(scores),
      gaps |-> Gaps(scores),
      recommendations |->
        GenerateRecommendations(Strengths(scores), Weaknesses(scores), Gaps(scores),
                                Score(as), Len(qs), oracle)]
AnalyzeDiagnosticResults(as, qs, oracle) ==
  LET score == Score(as)
      totalQuestions == Len(qs)
      topicScores == TopicScores(as, qs)
      strengths == Strengths(topicScores)
      weaknesses == Weaknesses(topicScores)
      gaps == Gaps(topicScores)
  IN [score |-> score,
      total_questions |-> totalQuestions,
      strengths |-> strengths,
      weaknesses |-> weaknesses,
      gaps |-> gaps,
      recommendations |->
        GenerateRecommendations(strengths, weaknesses, gaps, score,
                                totalQuestions, oracle)]

DiagIdle ==
  /\ answers = <<>>
  /\ questions = <<>>
  /\ analysis = [r \in Runs |-> {}]

DiagInit ==
  /\ \E in \in DiagInputs : answers = in[1] /\ questions = in[2]
  /\ analysis = [r \in Runs |-> {}]

\* one run of analyzeDiagnosticResults on the arguments, the oracle behaving
\* as `oracle` during it
Analyze(run, oracle) ==
  /\ analysis[run] = {}
  /\ run = "second" => analysis["first"] # {}
  /\ analysis' = [analysis EXCEPT ![run] =
       {[oracle |-> oracle,
         result |-> AnalyzeDiagnosticResults(answers, questions, oracle)]}]
  /\ UNCHANGED <<answers, questions, notDiag>>

\* --------------------------------------------------- saveChapterDiagnostic
PathChapters == {"ch1", "ch2"}
ScoreValues == {20, 29, 30, 59, 60, 95}

Prefixes(seq, n) == {SubSeq(seq, 1, k) : k \in 0..n}

\* a ChapterDiagnostic as a caller hands it in
DiagnosticOf(chapterId, score, weaknesses, gaps, prerequisites) ==
  [user_id |-> "u1", chapter_id |-> chapterId, score_percentage |-> score,
   weaknesses |-> weaknesses, knowledge_gaps |-> gaps,
   prerequisite_concepts |-> prerequisites]

Diagnostics ==
  {DiagnosticOf(ch, s, w, g, p) :
     ch \in {"ch1"}, s \in ScoreValues,
     w \in Prefixes(<<"w1", "w2", "w3", "w4">>, MaxWeaknesses),
     g \in Prefixes(<<"g1", "g2", "g3">>, MaxGaps),
     p \in Prefixes(<<"p1", "p2", "p3">>, MaxPrerequisites)}

\* the diagnostics of the behaviours with several saves
SavedDiagnostics ==
  {DiagnosticOf(ch, d[1], d[2], d[3], d[4]) :
     ch \in PathChapters,
     d \in {<<95, <<>>, <<>>, <<>> >>,
            <<20, <<"w1">>, <<"g1">>, <<"p1">> >>,
            <<59, <<"w2">>, <<>>, <<"p2">> >>}}

Step(kind, name) == [kind |-> kind, name |-> name]

RECURSIVE FocusAndPractice(_)
FocusAndPractice(weaknesses) ==
  IF weaknesses = <<>> THEN <<>>
  ELSE <<Step("Focus on", Head(weaknesses)),
         Step("Practice Problems", Head(weaknesses))>>
       \o FocusAndPractice(Tail(weaknesses))

GenerateLearningSequenceAlwaysMaster(diagnostic) ==
  (IF Len(diagnostic.knowledge_gaps) > 0
     THEN <<Step("Review Prerequisites", "")>> ELSE <<>>)
  \o [i \in DOMAIN diagnostic.prerequisite_concepts |->
        Step("Master", diagnostic.prerequisite_concepts[i])]
  \o FocusAndPractice(diagnostic.weaknesses)
  \o <<Step("Core Chapter Concepts", ""), Step("Advanced Applications", ""),
       Step("Chapter Assessment", "")>>
GenerateLearningSequence(diagnostic) ==
  (IF Len(diagnostic.knowledge_gaps) > 0
     THEN <<Step("Review Prerequisites", "")>>
          \o [i \in DOMAIN diagnostic.prerequisite_concepts |->
                Step("Master", diagnostic.prerequisite_concepts[i])]
     ELSE <<>>)
  \o FocusAndPractice(diagnostic.weaknesses)
  \o <<Step("Core Chapter Concepts", ""), Step("Advanced Applications", ""),
       Step("Chapter Assessment", "")>>

MathMin(a, b) == IF a <= b THEN a ELSE b

EstimateCompletionTimeNoCap(diagnostic) ==
  7 + Len(diagnostic.weaknesses) * 2 + Len(diagnostic.knowledge_gaps) * 3
    + (IF diagnostic.score_percentage < 30 THEN 5
       ELSE IF diagnostic.score_percentage < 60 THEN 3 ELSE 0)
EstimateCompletionTime(diagnostic) ==
  LET baseDays == 7 + Len(diagnostic.weaknesses) * 2
                    + Len(diagnostic.knowledge_gaps) * 3
      adjusted == IF diagnostic.score_percentage < 30 THEN baseDays + 5
                  ELSE IF diagnostic.score_percentage < 60 THEN baseDays + 3
                  ELSE baseDays
  IN MathMin(adjusted, 21)

\* the row createLearningPath hands to upsert: it carries no id
LearningPathRow(diagnostic) ==
  [user_id |-> diagnostic.user_id,
   chapter_id |-> diagnostic.chapter_id,
   path_data |-> [diagnostic_results |-> diagnostic,
                  recommended_sequence |-> GenerateLearningSequence(diagnostic),
                  focus_areas |-> diagnostic.weaknesses,
                  prerequisite_review |-> diagnostic.prerequisite_concepts],
   prerequisites |-> diagnostic.prerequisite_concepts,
   recommended_sequence |-> GenerateLearningSequence(diagnostic),
   estimated_completion_days |-> EstimateCompletionTime(diagnostic)]

WithId(row, id) ==
  [id |-> id, user_id |-> row.user_id, chapter_id |-> row.chapter_id,
   path_data |-> row.path_data, prerequisites |-> row.prerequisites,
   recommended_sequence |-> row.recommended_sequence,
   estimated_completion_days |-> row.estimated_completion_days]

\* UNIQUE(user_id, chapter_id) of learning_paths
PathConflict(table, row) ==
  \E r \in table : r.user_id = row.user_id /\ r.chapter_id = row.chapter_id

\* .upsert(row) with no onConflict option: INSERT ... ON CONFLICT (id) DO
\* UPDATE.  The row has no id, the default gives it a fresh one, the primary
\* key never conflicts, and the other unique constraint rejects a duplicate.
Upsert(table, row, dbOk) ==
  IF ~dbOk THEN [table |-> table, error |-> "db_error"]
  ELSE IF PathConflict(table, row) THEN [table |-> table, error |-> "23505"]
  ELSE [table |-> table \cup {WithId(row, Cardinality(table) + 1)},
        error |-> "none"]

\* createLearningPath: upsert, if (error) throw error
CreateLearningPath(table, diagnostic, dbOk) ==
  Upsert(table, LearningPathRow(diagnostic), dbOk)

\* generateAIRecommendations: the rows it inserts and the error it throws to
\* saveChapterDiagnostic; every failure is swallowed (an outcome that is not
\* an array makes the for-of throw into the catch)
GenerateAIRecommendationsUncaught(oracle) ==
  IF oracle.kind = "array" THEN [rows |-> Len(oracle.recs), error |-> "none"]
  ELSE IF oracle.kind = "not_array" THEN [rows |-> 0, error |-> "TypeError"]
  ELSE [rows |-> 0, error |-> "none"]
GenerateAIRecommendations(oracle) ==
  IF oracle.kind = "array" THEN [rows |-> Len(oracle.recs), error |-> "none"]
  ELSE [rows |-> 0, error |-> "none"]

\* the diagnostics submitted in a behaviour: many and one save, or few and
\* several saves
PoolOf(name) ==
  IF name = "Diagnostics" THEN Diagnostics
  ELSE IF name = "SavedDiagnostics" THEN SavedDiagnostics ELSE {}

PathIdle ==
  /\ chapter_diagnostics = <<>>
  /\ ai_recommendations = 0
  /\ learning_paths = {}
  /\ pool = "none"
  /\ savesLeft = 0
  /\ lastSave = {}
  /\ lastRead = {}

PathInit ==
  /\ chapter_diagnostics = <<>>
  /\ ai_recommendations = 0
  /\ learning_paths = {}
  /\ \/ pool = "Diagnostics" /\ savesLeft = 1
     \/ pool = "SavedDiagnostics" /\ savesLeft = MaxSaves
  /\ lastSave = {}
  /\ lastRead = {}

\* how the recommendation request ended: the fetch failed, the reply could
\* not be used, or the reply was an array of recommendations
OracleClass(oracle) ==
  IF oracle.kind = "array" THEN "array"
  ELSE IF oracle.kind \in {"network_error", "not_ok"} THEN "network"
  ELSE "malformed"

\* the outcome of a call: `oracle` is what the recommendation oracle did in
\* it, "none" when the call never reached it
Saved(diagnostic, result, oracle) ==
  {[diagnostic |-> diagnostic, result |-> result, oracle |-> oracle]}

\* saveChapterDiagnostic: insert, if (error) throw error; await
\* generateAIRecommendations; await createLearningPath; the catch logs and
\* throws again

SaveChapterDiagnostic(diagnostic, insertOk, oracle, upsertOk) ==
  /\ savesLeft > 0
  /\ savesLeft' = savesLeft - 1
  /\ IF ~insertOk
       THEN /\ lastSave' = Saved(diagnostic, "insert_error", "none")
            /\ UNCHANGED <<chapter_diagnostics, ai_recommendations, learning_paths>>
       ELSE LET rec == GenerateAIRecommendations(oracle)
                up == CreateLearningPath(learning_paths, diagnostic, upsertOk)
            IN /\ chapter_diagnostics' = Append(chapter_diagnostics, diagnostic)
               /\ ai_recommendations' = ai_recommendations + rec.rows
               /\ IF rec.error # "none"
                    THEN /\ lastSave' = Saved(diagnostic, rec.error, OracleClass(oracle))
                         /\ UNCHANGED learning_paths
                    ELSE /\ learning_paths' = up.table
                         /\ lastSave' = Saved(diagnostic, up.error, OracleClass(oracle))
  /\ lastRead' = {}
  /\ UNCHANGED <<pool, notPath>>

\* .eq('user_id', userId).eq('chapter_id', chapterId) on chapter_diagnostics:
\* the positions of the matching rows
SelectDiagnostics(table, userId, chapterId) ==
  {i \in DOMAIN table :
     table[i].user_id = userId /\ table[i].chapter_id = chapterId}

\* .single() on the matching rows: data is the row when there is exactly
\* one; with none or several data is null and the error code is PGRST116
SingleDiagnostic(table, userId, chapterId, dbOk) ==
  LET rows == SelectDiagnostics(table, userId, chapterId)
  IN IF ~dbOk THEN [data |-> {}, error |-> "db_error"]
     ELSE IF Cardinality(rows) = 1
       THEN [data |-> {table[CHOOSE i \in rows : TRUE]}, error |-> "none"]
       ELSE [data |-> {}, error |-> "PGRST116"]

Looked(op, chapterId, dbOk, found, data) ==
  {[op |-> op, chapter_id |-> chapterId, dbOk |-> dbOk, found |-> found,
    data |-> data]}

\* if (error && error.code !== 'PGRST116') throw error; return !!data;
\* catch: return false
HasUserTakenDiagnostic(userId, chapterId, dbOk) ==
  /\ pool = "SavedDiagnostics"
  /\ savesLeft > 0
  /\ savesLeft' = 0
  /\ LET res == SingleDiagnostic(chapter_diagnostics, userId, chapterId, dbOk)
         thrown == res.error \notin {"none", "PGRST116"}
     IN lastRead' = Looked("hasUserTakenDiagnostic", chapterId, dbOk,
                           IF thrown THEN FALSE ELSE res.data # {}, {})
  /\ UNCHANGED <<chapter_diagnostics, ai_recommendations, learning_paths, pool,
                 lastSave, notPath>>

\* if (error && error.code !== 'PGRST116') throw error; return data;
\* catch: return null
GetChapterDiagnostic(userId, chapterId, dbOk) ==
  /\ pool = "SavedDiagnostics"
  /\ savesLeft > 0
  /\ savesLeft' = 0
  /\ LET res == SingleDiagnostic(chapter_diagnostics, userId, chapterId, dbOk)
         thrown == res.error \notin {"none", "PGRST116"}
         data == IF thrown THEN {} ELSE res.data
     IN lastRead' = Looked("getChapterDiagnostic", chapterId, dbOk,
                           data # {}, data)
  /\ UNCHANGED <<chapter_diagnostics, ai_recommendations, learning_paths, pool,
                 lastSave, notPath>>

\* -------------------------------------------------- generateProgressReport
ReportTypes == {"daily", "weekly", "monthly", "chapter", "yearly"}
ReportUsers == {"u1", "u2"}

\* timestamps are ages in hours before the call; every row is older than the
\* call that reads it
AgeValues == {1, 100}
DurationValues == {15, 40}
LevelValues == {0, 50, 100}

\* the switch on reportType: how far startDate is moved back from endDate;
\* there is no default case, so any other kind leaves startDate at now
Window(reportType) ==
  IF reportType = "daily" THEN 24
  ELSE IF reportType = "weekly" THEN 168
  ELSE IF reportType = "monthly" THEN 720
  ELSE IF reportType = "chapter" THEN 2160
  ELSE 0

\* .gte(column, startDate).lte(column, endDate)
InWindow(row, reportType) == row.age <= Window(reportType)

AttemptOf(userId, concept, isCorrect, age) ==
  [user_id |-> userId, concept |-> concept, is_correct |-> isCorrect, age |-> age]

AttemptChoices ==
  {AttemptOf(ua[1], c, ok, ua[2]) :
     ua \in {<<"u1", 1>>, <<"u1", 100>>, <<"u2", 1>>},
     c \in Concepts \cup {NoValue}, ok \in BOOLEAN}

\* three to MaxRun recent attempts of the user on one concept
RunsOnOneConcept ==
  UNION {{[i \in 1..n |-> AttemptOf("u1", "c1", ok[i], 1)] :
            ok \in [1..n -> BOOLEAN]} : n \in 3..MaxRun}

AttemptLists == SeqsUpTo(AttemptChoices, MaxAttempts) \cup RunsOnOneConcept

SessionLists ==
  SeqsUpTo([user_id : {"u1"}, duration_minutes : DurationValues, age : AgeValues],
           MaxSessions)

\* concept_mastery rows: c1 practiced an hour ago, c2 four days ago, c3 long
\* before any window
MasteryAge(concept) ==
  IF concept = "c1" THEN 1 ELSE IF concept = "c2" THEN 100 ELSE 5000

MasteryKeys == {<<"u1", "c1">>, <<"u1", "c2">>, <<"u1", "c3">>, <<"u2", "c1">>}

MasteryTables ==
  {{[user_id |-> k[1], concept |-> k[2], mastery_level |-> f[k],
     age |-> MasteryAge(k[2])] : k \in {x \in MasteryKeys : f[x] # -1}} :
     f \in [MasteryKeys -> LevelValues \cup {-1}]}

DefaultAttempts ==
  <<AttemptOf("u1", "c1", TRUE, 1), AttemptOf("u1", "c2", FALSE, 100)>>
DefaultSessions ==
  <<[user_id |-> "u1", duration_minutes |-> 15, age |-> 1],
    [user_id |-> "u1", duration_minutes |-> 40, age |-> 100]>>
DefaultMastery ==
  {[user_id |-> "u1", concept |-> "c1", mastery_level |-> 100, age |-> 1],
   [user_id |-> "u2", concept |-> "c1", mastery_level |-> 50, age |-> 1]}

ReportScenarios ==
  (AttemptLists \X {DefaultSessions} \X {DefaultMastery})
  \cup ({DefaultAttempts} \X SessionLists \X {DefaultMastery})
  \cup ({DefaultAttempts} \X {DefaultSessions} \X MasteryTables)

\* a query whose data is null is read as no rows: attempts || []
SelectInWindow(rows, userId, reportType, readFailed) ==
  IF readFailed THEN <<>>
  ELSE SelectSeq(rows, LAMBDA r : r.user_id = userId /\ InWindow(r, reportType))

SelectMasteryOf(table, userId, readFailed) ==
  IF readFailed THEN {} ELSE {m \in table : m.user_id = userId}

CorrectAttempts(attempts) ==
  Cardinality({i \in DOMAIN attempts : attempts[i].is_correct})

\* totalAttempts > 0 ? (correctAttempts / totalAttempts) * 100 : 0
AccuracyPercentage(attempts) ==
  IF Len(attempts) > 0
    THEN [num |-> 100 * CorrectAttempts(attempts), den |-> Len(attempts)]
    ELSE [num |-> 0, den |-> 1]

TotalTimeSpentFirst(sessions) ==
  IF sessions = <<>> THEN 0 ELSE Head(sessions).duration_minutes
RECURSIVE TotalTimeSpent(_)
TotalTimeSpent(sessions) ==
  IF sessions = <<>> THEN 0
  ELSE Head(sessions).duration_minutes + TotalTimeSpent(Tail(sessions))

BumpConcept(stats, concept, correct) ==
  LET add == IF correct THEN 1 ELSE 0
  IN IF \E i \in DOMAIN stats : stats[i].concept = concept
       THEN [i \in DOMAIN stats |->
               IF stats[i].concept = concept
                 THEN [stats[i] EXCEPT !.total = @ + 1, !.correct = @ + add]
                 ELSE stats[i]]
       ELSE Append(stats, [concept |-> concept, correct |-> add, total |-> 1])

\* attempts.forEach: if (!attempt.concept) return; the entries keep the order
\* in which their concepts first appear
RECURSIVE AnalyzeConceptPerformance(_)
AnalyzeConceptPerformance(attempts) ==
  IF attempts = <<>> THEN <<>>
  ELSE LET n == Len(attempts)
           prev == AnalyzeConceptPerformance(SubSeq(attempts, 1, n - 1))
       IN IF attempts[n].concept = NoValue THEN prev
          ELSE BumpConcept(prev, attempts[n].concept, attempts[n].is_correct)

\* stats.accuracy > 80, stats.accuracy < 60
IsReportStrengthInclusive(correct, total) == 100 * correct >= 80 * total
IsReportStrength(correct, total) == 100 * correct > 80 * total
IsReportWeakness(correct, total) == 100 * correct < 60 * total

ConceptsOf(stats) == [i \in DOMAIN stats |-> stats[i].concept]

ReportStrengths(stats) ==
  ConceptsOf(SelectSeq(stats, LAMBDA e : IsReportStrength(e.correct, e.total)))
ReportWeaknesses(stats) ==
  ConceptsOf(SelectSeq(stats, LAMBDA e : IsReportWeakness(e.correct, e.total)))

\* mastery?.filter(m => m.mastery_level >= 0.8).map(m => m.concept)
MasteredConcepts(masteryData) ==
  {m.concept : m \in {x \in masteryData : x.mastery_level >= 80}}

RECURSIVE TotalMastery(_)
TotalMastery(masteryData) ==
  IF masteryData = {} THEN 0
  ELSE LET m == CHOOSE x \in masteryData : TRUE
       IN m.mastery_level + TotalMastery(masteryData \ {m})

\* (totalMastery / masteryData.length) * 100, levels in hundredths
CalculateOverallProgressMastered(masteryData) ==
  LET top == {m \in masteryData : m.mastery_level >= 80}
  IN IF top = {} THEN [num |-> 0, den |-> 1]
     ELSE [num |-> TotalMastery(top), den |-> Cardinality(top)]
CalculateOverallProgress(masteryData) ==
  IF Cardinality(masteryData) = 0 THEN [num |-> 0, den |-> 1]
  ELSE [num |-> TotalMastery(masteryData), den |-> Cardinality(masteryData)]

\* what the insight oracle does in one call
InsightOutcomes ==
  {[kind |-> "network_error", text |-> ""],
   [kind |-> "unparsable", text |-> ""],
   [kind |-> "no_text", text |-> ""],
   [kind |-> "text", text |-> "insight"]}

FallbackInsight == "You're making great progress!"

GenerateAIInsightsUncaught(oracle) ==
  IF oracle.kind = "text" THEN oracle.text
  ELSE IF oracle.kind = "unparsable" THEN "SyntaxError" ELSE FallbackInsight
GenerateAIInsights(oracle) ==
  IF oracle.kind = "text" THEN oracle.text ELSE FallbackInsight

GenerateProgressRecommendationsLast(weaknesses) ==
  <<Message("Continue your daily practice routine", 0, 0, ""),
    Message("Great job on maintaining focus", 0, 0, "")>>
  \o (IF Len(weaknesses) > 0
        THEN <<Message("Focus extra attention on", 0, 0, weaknesses[1]),
               Message("Try breaking down", 0, 0, weaknesses[Len(weaknesses)])>>
        ELSE <<>>)
GenerateProgressRecommendations(weaknesses) ==
  <<Message("Continue your daily practice routine", 0, 0, ""),
    Message("Great job on maintaining focus", 0, 0, "")>>
  \o (IF Len(weaknesses) > 0
        THEN <<Message("Focus extra attention on", 0, 0, weaknesses[1]),
               Message("Try breaking down", 0, 0, weaknesses[1])>>
        ELSE <<>>)

\* a decimal(5,2) column keeps two decimals: num/den in hundredths, half up
Decimal_5_2(num, den) == (200 * num + den) \div (2 * den)

\* the row of progress_reports made from the report object
StoredReport(id, userId, reportType, chapterId, attempts, sessions, mastery, oracle) ==
  LET conceptStats == AnalyzeConceptPerformance(attempts)
      weaknesses == ReportWeaknesses(conceptStats)
      accuracy == AccuracyPercentage(attempts)
      overall == CalculateOverallProgress(mastery)
  IN [id |-> id,
      user_id |-> userId,
      report_type |-> reportType,
      report_period_hours |-> Window(reportType),
      chapter_id |-> chapterId,
      overall_progress |-> Decimal_5_2(overall.num, overall.den),
      strengths_identified |-> ReportStrengths(conceptStats),
      areas_for_improvement |-> weaknesses,
      time_spent_minutes |-> TotalTimeSpent(sessions),
      questions_attempted |-> Len(attempts),
      accuracy_percentage |-> Decimal_5_2(accuracy.num, accuracy.den),
      concepts_mastered |-> MasteredConcepts(mastery),
      ai_insights |-> GenerateAIInsights(oracle),
      recommendations |-> GenerateProgressRecommendations(weaknesses),
      report_data |-> [conceptStats |-> conceptStats]]

ReportIdle ==
  /\ attempt_rows = <<>>
  /\ study_sessions = <<>>
  /\ mastery_rows = {}
  /\ progress_reports = {}
  /\ reportsLeft = 0
  /\ lastReport = {}

\* one report over any of the scenarios, or up to MaxReports reports over
\* the default tables
ReportInit ==
  /\ \E sc \in ReportScenarios :
       /\ attempt_rows = sc[1]
       /\ study_sessions = sc[2]
       /\ mastery_rows = sc[3]
       /\ reportsLeft \in
            {1} \cup (IF sc = <<DefaultAttempts, DefaultSessions, DefaultMastery>>
                        THEN {MaxReports} ELSE {})
  /\ progress_reports = {}
  /\ lastReport = {}

Reported(reportType, failedReads, oracle, result, report) ==
  {[reportType |-> reportType, failedReads |-> failedReads, oracle |-> oracle,
    result |-> result, report |-> report]}

\* generateProgressReport returning the report object whatever the insert did
GenerateProgressReportUnchecked(userId, reportType, chapterId, failedReads, oracle, insertOk) ==
  /\ reportsLeft > 0
  /\ reportsLeft' = reportsLeft - 1
  /\ LET attempts == SelectInWindow(attempt_rows, userId, reportType,
                                    "attempts" \in failedReads)
         sessions == SelectInWindow(study_sessions, userId, reportType,
                                    "sessions" \in failedReads)
         mastery == SelectMasteryOf(mastery_rows, userId, "mastery" \in failedReads)
         data == StoredReport(Cardinality(progress_reports) + 1, userId,
                              reportType, chapterId, attempts, sessions,
                              mastery, oracle)
     IN /\ progress_reports' =
             IF insertOk THEN progress_reports \cup {data} ELSE progress_reports
        /\ lastReport' = Reported(reportType, failedReads, oracle, "ok", {data})
  /\ UNCHANGED <<attempt_rows, study_sessions, mastery_rows, notReport>>

\* generateProgressReport: three reads, the report object, insert(report)
\* .select().single(), if (error) throw error, return data
GenerateProgressReport(userId, reportType, chapterId, failedReads, oracle, insertOk) ==
  /\ reportsLeft > 0
  /\ reportsLeft' = reportsLeft - 1
  /\ LET attempts == SelectInWindow(attempt_rows, userId, reportType,
                                    "attempts" \in failedReads)
         sessions == SelectInWindow(study_sessions, userId, reportType,
                                    "sessions" \in failedReads)
         mastery == SelectMasteryOf(mastery_rows, userId, "mastery" \in failedReads)
         data == StoredReport(Cardinality(progress_reports) + 1, userId,
                              reportType, chapterId, attempts, sessions,
                              mastery, oracle)
     IN IF insertOk
          THEN /\ progress_reports' = progress_reports \cup {data}
               /\ lastReport' = Reported(reportType, failedReads, oracle, "ok", {data})
          ELSE /\ UNCHANGED progress_reports
               /\ lastReport' = Reported(reportType, failedReads, oracle,
                                         "db_error", {})
  /\ UNCHANGED <<attempt_rows, study_sessions, mastery_rows, notReport>>

\* ------------------------------------- startStudySession, endStudySession
\* ended_at of a session that was never closed (null)
NoTime == 0

SessionIds == 1..MaxSessionCalls

\* the endData a caller passes to endStudySession
EndDataValues ==
  {[duration_minutes |-> 15, questions_attempted |-> 2, questions_correct |-> 1],
   [duration_minutes |-> 40, questions_attempted |-> 5, questions_correct |-> 4]}

\* insert({...session, started_at}): no ended_at, duration_minutes by default
NewSession(id, startedAt) ==
  [id |-> id, started_at |-> startedAt, ended_at |-> NoTime,
   duration_minutes |-> 0, questions_attempted |-> 0, questions_correct |-> 0]

\* .update({...endData, ended_at: endTime}).eq('id', sessionId)
Ended(row, endData, endTime) ==
  [row EXCEPT !.ended_at = endTime,
              !.duration_minutes = endData.duration_minutes,
              !.questions_attempted = endData.questions_attempted,
              !.questions_correct = endData.questions_correct]

SessionIdle ==
  /\ session_rows = <<>>
  /\ now = 0
  /\ firstClose = [id \in SessionIds |-> {}]

SessionInit ==
  /\ session_rows = <<>>
  /\ now = 1
  /\ firstClose = [id \in SessionIds |-> {}]

StartStudySession(dbOk) ==
  /\ now \in 1..MaxSessionCalls
  /\ now' = now + 1
  /\ session_rows' =
       IF dbOk THEN Append(session_rows, NewSession(Len(session_rows) + 1, now))
       ELSE session_rows
  /\ UNCHANGED <<firstClose, notSession>>

EndStudySession(sessionId, endData, dbOk) ==
  /\ now \in 1..MaxSessionCalls
  /\ now' = now + 1
  /\ session_rows' =
       IF dbOk
         THEN [i \in DOMAIN session_rows |->
                 IF session_rows[i].id = sessionId
                   THEN Ended(session_rows[i], endData, now)
                   ELSE session_rows[i]]
         ELSE session_rows
  /\ firstClose' =
       IF dbOk /\ sessionId \in DOMAIN session_rows /\ firstClose[sessionId] = {}
         THEN [firstClose EXCEPT ![sessionId] = {session_rows'[sessionId]}]
         ELSE firstClose
  /\ UNCHANGED notSession

Init == MasteryInit /\ DiagIdle /\ PathIdle /\ ReportIdle /\ SessionIdle

Next ==
  \/ \E p \in Procs, a \in Attempts, dbOk \in BOOLEAN :
       RecordQuestionAttempt(p, a, dbOk)
  \/ \E p \in Procs, u \in Users, ch \in Chapters, co \in Concepts,
        ok \in BOOLEAN, t \in TimeValues :
       UpdateConceptMastery(p, u, ch, co, ok, t)
  \/ \E p \in Procs, dbOk \in BOOLEAN : MasteryLookup(p, dbOk)
  \/ \E p \in Procs, dbOk \in BOOLEAN : MasteryUpdate(p, dbOk)
  \/ \E p \in Procs, dbOk \in BOOLEAN : MasteryInsert(p, dbOk)

Spec == Init /\ [][Next]_vars

InitDiag == MasteryOff /\ DiagInit /\ PathIdle /\ ReportIdle /\ SessionIdle

NextDiag == \E run \in Runs, oracle \in OracleOutcomes : Analyze(run, oracle)

SpecDiag == InitDiag /\ [][NextDiag]_vars

InitSave == MasteryOff /\ DiagIdle /\ PathInit /\ ReportIdle /\ SessionIdle

NextSave ==
  \/ \E diagnostic \in PoolOf(pool), insertOk \in BOOLEAN,
        oracle \in OracleOutcomes, upsertOk \in BOOLEAN :
       SaveChapterDiagnostic(diagnostic, insertOk, oracle, upsertOk)
  \/ \E chapterId \in PathChapters, dbOk \in BOOLEAN :
       HasUserTakenDiagnostic("u1", chapterId, dbOk)
  \/ \E chapterId \in PathChapters, dbOk \in BOOLEAN :
       GetChapterDiagnostic("u1", chapterId, dbOk)

SpecSave == InitSave /\ [][NextSave]_vars

\* the calls considered: at most one of the three reads, the oracle and the
\* insert goes wrong in a call
AtMostOneFault(failedReads, oracle, insertOk) ==
  Cardinality(failedReads \cup (IF oracle.kind # "text" THEN {"oracle"} ELSE {})
                          \cup (IF insertOk THEN {} ELSE {"insert"})) <= 1

InitReport ==
  /\ MasteryOff /\ DiagIdle /\ PathIdle
  /\ ReportInit /\ SessionIdle

NextReport ==
  \E reportType \in ReportTypes, chapterId \in {NoValue, "ch1"},
     failedReads \in SUBSET {"attempts", "sessions", "mastery"},
     oracle \in InsightOutcomes, insertOk \in BOOLEAN :
    /\ (chapterId = "ch1") <=> (reportType = "chapter")
    /\ AtMostOneFault(failedReads, oracle, insertOk)
    /\ GenerateProgressReport("u1", reportType, chapterId, failedReads, oracle, insertOk)

SpecReport == InitReport /\ [][NextReport]_vars

InitSession ==
  /\ MasteryOff /\ DiagIdle /\ PathIdle
  /\ ReportIdle /\ SessionInit

NextSession ==
  \/ \E dbOk \in BOOLEAN : StartStudySession(dbOk)
  \/ \E sessionId \in 1..(Len(session_rows) + 1), endData \in EndDataValues,
        dbOk \in BOOLEAN :
       EndStudySession(sessionId, endData, dbOk)

SpecSession == InitSession /\ [][NextSession]_vars

\* the two handlers that make derived writes after a primary insert, each
\* run calling one of them
InitPrimary ==
  \/ /\ MasteryIdle /\ entry = "recordQuestionAttempt"
     /\ DiagIdle /\ PathIdle /\ ReportIdle /\ SessionIdle
  \/ InitSave

NextPrimary ==
  \/ \E p \in Procs, a \in Attempts, dbOk \in BOOLEAN :
       RecordQuestionAttempt(p, a, dbOk)
  \/ \E p \in Procs, dbOk \in BOOLEAN : MasteryLookup(p, dbOk)
  \/ \E p \in Procs, dbOk \in BOOLEAN : MasteryUpdate(p, dbOk)
  \/ \E p \in Procs, dbOk \in BOOLEAN : MasteryInsert(p, dbOk)
  \/ \E d \in PoolOf(pool), insertOk \in BOOLEAN, oracle \in OracleOutcomes,
        upsertOk \in BOOLEAN :
       SaveChapterDiagnostic(d, insertOk, oracle, upsertOk)

SpecPrimary == InitPrimary /\ [][NextPrimary]_vars

\* ---------------------------------------------------------------- claims
RowsOf(k) == {r \in concept_mastery : KeyOf(r) = k}

\* the row of key k counts n attempts, c of them correct
Counts(k, n, c) ==
  \E r \in RowsOf(k) : r.attempts_count = n /\ r.correct_attempts = c

\* C1 (as amended): after N successful, non-overlapping updateConceptMastery
\* calls on one triple, C of them correct, the triple's row has
\* attempts_count = N, correct_attempts = C and mastery_level = min(1, C/N)
\* rounded to two decimals (the precision of the column), whatever happened
\* on the other triples in between.
C1_SequentialCounts ==
  \A k \in Keys :
    (~overlapped[k] /\ okCalls[k].n > 0) =>
      \E r \in RowsOf(k) :
        /\ r.attempts_count = okCalls[k].n
        /\ r.correct_attempts = okCalls[k].c
        /\ 2 * okCalls[k].n * r.mastery_level <= 200 * okCalls[k].c + okCalls[k].n
        /\ 200 * okCalls[k].c + okCalls[k].n < 2 * okCalls[k].n * (r.mastery_level + 1)

\* C1 as stated: the stored mastery_level is exactly min(1, C/N).
C1_ExactLevel ==
  \A k \in Keys :
    (~overlapped[k] /\ okCalls[k].n > 0) =>
      \E r \in RowsOf(k) :
        /\ r.attempts_count = okCalls[k].n
        /\ r.correct_attempts = okCalls[k].c
        /\ r.mastery_level * okCalls[k].n = 100 * okCalls[k].c

\* three calls in a row on one triple, one of them correct: 1/3 is stored 0.33
C1_Witness ==
  \E k \in Keys :
    /\ ~overlapped[k]
    /\ okCalls[k].n = 3
    /\ okCalls[k].c = 1
    /\ \E r \in RowsOf(k) : r.attempts_count = 3 /\ r.mastery_level = 33

\* C2: no update of a triple is lost: once every call on a triple has
\* returned, its row counts every call that returned normally, also when
\* their lookups and writes were interleaved.
C2_NoLostUpdate ==
  \A k \in Keys :
    (InFlight(k) = {} /\ okCalls[k].n > 0) => Counts(k, okCalls[k].n, okCalls[k].c)

\* C3: every row has 0 <= correct_attempts <= attempts_count and
\* 0 <= mastery_level <= 1.
C3_RowBounds ==
  \A r \in concept_mastery :
    /\ 0 <= r.correct_attempts
    /\ r.correct_attempts <= r.attempts_count
    /\ 0 <= r.mastery_level
    /\ r.mastery_level <= 100

C3_Witness ==
  \E r \in concept_mastery :
    /\ r.attempts_count >= 2
    /\ 0 < r.correct_attempts
    /\ r.correct_attempts < r.attempts_count
    /\ 0 < r.mastery_level
    /\ r.mastery_level < 100

\* C4: there is at most one row per (user, chapter, concept).
C4_OneRowPerTriple ==
  \A r1 \in concept_mastery, r2 \in concept_mastery :
    KeyOf(r1) = KeyOf(r2) => r1 = r2

\* two first attempts raced: this one looked the triple up, found no row, and
\* its insert met the row the other one had inserted meanwhile
C4_Witness ==
  /\ lastReturn.result = "23505"
  /\ "lookup" \notin lastReturn.failed
  /\ \E k \in Keys : overlapped[k] /\ Cardinality(RowsOf(k)) = 1

\* C5: a call that returned normally had no failed mastery persistence step
\* (lookup, insert or update).
C5_FailureIsRaised ==
  lastReturn.result = "ok" => lastReturn.failed = {}

\* C6 (as amended): a recorded attempt that carries a concept and a chapter id
\* has created or updated exactly one mastery row when
\* recordQuestionAttempt returns.
C6_OneRowPerKeyedAttempt ==
  (/\ lastReturn.op = "record"
   /\ lastReturn.result = "ok"
   /\ lastReturn.concept # NoValue
   /\ lastReturn.chapter_id # NoValue) => lastReturn.writes = 1

\* C6 as stated: every recorded attempt that carries a concept.
C6_OneRowPerConceptAttempt ==
  (/\ lastReturn.op = "record"
   /\ lastReturn.result = "ok"
   /\ lastReturn.concept # NoValue) => lastReturn.writes = 1

C6_Witness ==
  /\ lastReturn.op = "record"
  /\ lastReturn.result = "ok"
  /\ lastReturn.concept # NoValue
  /\ lastReturn.chapter_id # NoValue
  /\ lastReturn.writes = 1
  /\ \E r \in concept_mastery : r.attempts_count >= 2

\* ------------------------------------------------ claims on the diagnostic
Done(run) == analysis[run] # {}
ResultOf(run) == (CHOOSE a \in analysis[run] : TRUE).result
OracleOf(run) == (CHOOSE a \in analysis[run] : TRUE).oracle

\* the per-topic tallies of the arguments when every outcome is counted for
\* the bank entry whose id is the outcome's questionId
TotalById(as, qs, topic) ==
  Cardinality({i \in DOMAIN as :
     \E q \in QuestionByIdOf(as, qs, i) : q.topic = topic})
CorrectById(as, qs, topic) ==
  Cardinality({i \in DOMAIN as :
     as[i].correct /\ \E q \in QuestionByIdOf(as, qs, i) : q.topic = topic})

Classes(result) ==
  <<Range(result.strengths), Range(result.weaknesses), Range(result.gaps)>>

ClassesById(as, qs) ==
  LET seen == {t \in Topics : TotalById(as, qs, t) > 0}
  IN <<{t \in seen : IsStrength(CorrectById(as, qs, t), TotalById(as, qs, t))},
       {t \in seen : IsWeakness(CorrectById(as, qs, t), TotalById(as, qs, t))},
       {t \in seen : IsGap(CorrectById(as, qs, t), TotalById(as, qs, t))}>>

Swap(as, i, j) ==
  [n \in DOMAIN as |-> IF n = i THEN as[j] ELSE IF n = j THEN as[i] ELSE as[n]]

\* C7: every tallied topic is in strengths iff its accuracy is >= 80, in
\* weaknesses iff its accuracy is < 60, and in gaps iff its accuracy is < 30
\* (so a topic with 60 <= accuracy < 80 is in none of the lists).
C7_Thresholds ==
  \A run \in Runs : Done(run) =>
    LET scores == TopicScores(answers, questions)
        r == ResultOf(run)
    IN \A i \in DOMAIN scores :
         LET e == scores[i]
         IN /\ (e.topic \in Range(r.strengths)) <=> (100 * e.correct >= 80 * e.total)
            /\ (e.topic \in Range(r.weaknesses)) <=> (100 * e.correct < 60 * e.total)
            /\ (e.topic \in Range(r.gaps)) <=> (100 * e.correct < 30 * e.total)

\* C8: in every returned analysis the gaps are among the weaknesses and no
\* topic is both a strength and a weakness; a topic tallied 2 of 10 is a
\* weakness and a gap, a topic tallied 9 of 10 is a strength and nothing else.
C8_GapsWithinWeaknesses ==
  \A run \in Runs : Done(run) =>
    LET scores == TopicScores(answers, questions)
        r == ResultOf(run)
    IN /\ Range(r.gaps) \subseteq Range(r.weaknesses)
       /\ Range(r.strengths) \cap Range(r.weaknesses) = {}
       /\ \A i \in DOMAIN scores :
            /\ (scores[i].correct = 2 /\ scores[i].total = 10) =>
                 /\ scores[i].topic \in Range(r.weaknesses)
                 /\ scores[i].topic \in Range(r.gaps)
                 /\ scores[i].topic \notin Range(r.strengths)
            /\ (scores[i].correct = 9 /\ scores[i].total = 10) =>
                 /\ scores[i].topic \in Range(r.strengths)
                 /\ scores[i].topic \notin Range(r.weaknesses)
                 /\ scores[i].topic \notin Range(r.gaps)

C8_Witness ==
  /\ Done("first")
  /\ \E i \in DOMAIN TopicScores(answers, questions) :
       LET e == TopicScores(answers, questions)[i]
       IN /\ e.correct = 2 /\ e.total = 10
          /\ e.topic \in Range(ResultOf("first").gaps)
          /\ e.topic \in Range(ResultOf("first").weaknesses)

\* C9: every outcome counts for the bank entry whose id is its questionId,
\* and the strengths, weaknesses and gaps of the outcomes list are those of
\* every reordering of it.
C9_MatchedById ==
  \A run \in Runs : Done(run) =>
    /\ Classes(ResultOf(run)) = ClassesById(answers, questions)
    /\ \A i \in DOMAIN answers, j \in DOMAIN answers :
         Classes(AnalyzeDiagnosticResults(Swap(answers, i, j), questions,
                                          OracleOf(run)))
           = Classes(ResultOf(run))

\* C10: two runs on the same outcomes and question bank return the same
\* strengths, weaknesses and gaps, whatever the oracle did in each of them.
C10_OracleIndependent ==
  (Done("first") /\ Done("second")) =>
    /\ ResultOf("first").strengths = ResultOf("second").strengths
    /\ ResultOf("first").weaknesses = ResultOf("second").weaknesses
    /\ ResultOf("first").gaps = ResultOf("second").gaps

C10_Witness ==
  /\ Done("first") /\ Done("second")
  /\ OracleOf("first").kind = "array"
  /\ OracleOf("second").kind = "network_error"
  /\ ResultOf("first").recommendations # ResultOf("second").recommendations
  /\ ResultOf("first").strengths # <<>>
  /\ ResultOf("first").weaknesses # <<>>
  /\ ResultOf("first").strengths = ResultOf("second").strengths

OracleFailed(run) == OracleOf(run).kind # "array"

\* C11: whenever the oracle fails (network error, non-OK response, no text,
\* unparsable text, JSON that is not an array) the analysis is still returned
\* and its recommendations are the fallback list, the first element citing
\* the score and the number of questions.
C11_OracleFailureFallsBack ==
  \A run \in Runs : (Done(run) /\ OracleFailed(run)) =>
    LET r == ResultOf(run)
    IN /\ r.score = Score(answers)
       /\ r.total_questions = Len(questions)
       /\ r.recommendations =
            FallbackRecommendations(r.strengths, r.weaknesses, r.score,
                                    r.total_questions)
       /\ r.recommendations[1] =
            Message("You scored", Score(answers), Len(questions), "")

C11_Witness ==
  /\ Done("first") /\ Done("second")
  /\ {OracleOf("first").kind, OracleOf("second").kind} = {"unparsable", "not_ok"}
  /\ ResultOf("first").recommendations[1].kind = "You scored"
  /\ ResultOf("first").recommendations[1].score = 1
  /\ ResultOf("first").recommendations[1].total = 2

\* the entries of a list of recommendations
Kinds(recs) == [i \in DOMAIN recs |-> recs[i].kind]

\* C12 (as the code has it): the fallback list is the score message, the
\* practice tip and the message about mistakes, then a message naming the
\* first strength iff there is a strength, then a message naming the first
\* weakness iff there is a weakness, and nothing else.
C12_FallbackList ==
  \A run \in Runs : (Done(run) /\ OracleFailed(run)) =>
    LET r == ResultOf(run)
        recs == r.recommendations
        s == IF r.strengths # <<>> THEN 1 ELSE 0
        w == IF r.weaknesses # <<>> THEN 1 ELSE 0
    IN /\ Len(recs) = 3 + s + w
       /\ recs[1].kind = "You scored"
       /\ recs[1].score = r.score /\ recs[1].total = r.total_questions
       /\ recs[2].kind = "Focus on daily practice"
       /\ recs[3].kind = "Don't worry about mistakes"
       /\ s = 1 => /\ recs[4].kind = "You're doing great with"
                   /\ recs[4].topic = r.strengths[1]
       /\ w = 1 => /\ recs[3 + s + 1].kind = "Let's work on"
                   /\ recs[3 + s + 1].topic = r.weaknesses[1]

\* C12 (as stated): the fallback list is the score message, the practice tip
\* and, iff there is a weakness, a message naming the first weakness; it has
\* no other entries.
C12_FallbackThreeAtMost ==
  \A run \in Runs : (Done(run) /\ OracleFailed(run)) =>
    LET r == ResultOf(run)
        recs == r.recommendations
    IN /\ Kinds(recs) = <<"You scored", "Focus on daily practice">>
                         \o (IF r.weaknesses # <<>> THEN <<"Let's work on">> ELSE <<>>)
       /\ r.weaknesses # <<>> => recs[Len(recs)].topic = r.weaknesses[1]

C12_Witness ==
  /\ Done("first") /\ OracleFailed("first")
  /\ Len(ResultOf("first").weaknesses) = 2
  /\ Len(ResultOf("first").recommendations) = 4

\* ------------------------------------------- claims on the learning path
LastDiagnostic == (CHOOSE x \in lastSave : TRUE).diagnostic
LastResult == (CHOOSE x \in lastSave : TRUE).result

PathsOf(userId, chapterId) ==
  {r \in learning_paths : r.user_id = userId /\ r.chapter_id = chapterId}

\* the last call stored the path of its diagnostic
PathStored == lastSave # {} /\ LastResult = "none"
StoredPath ==
  CHOOSE r \in PathsOf(LastDiagnostic.user_id, LastDiagnostic.chapter_id) : TRUE

\* C13: the stored sequence is "Review Prerequisites" and one "Master: p" per
\* prerequisite in order when there is a knowledge gap (none of them when
\* there is none), then "Focus on: w", "Practice: w Problems" per weakness in
\* order, then the three fixed closing entries.
C13_LearningSequence ==
  PathStored =>
    LET d == LastDiagnostic
        seq == StoredPath.recommended_sequence
        P == Len(d.prerequisite_concepts)
        W == Len(d.weaknesses)
        h == IF d.knowledge_gaps # <<>> THEN 1 + P ELSE 0
    IN /\ Len(seq) = h + 2 * W + 3
       /\ d.knowledge_gaps # <<>> =>
            /\ seq[1] = Step("Review Prerequisites", "")
            /\ \A i \in 1..P : seq[1 + i] = Step("Master", d.prerequisite_concepts[i])
       /\ d.knowledge_gaps = <<>> =>
            \A i \in DOMAIN seq : seq[i].kind \notin {"Review Prerequisites", "Master"}
       /\ \A i \in 1..W :
            /\ seq[h + 2 * i - 1] = Step("Focus on", d.weaknesses[i])
            /\ seq[h + 2 * i] = Step("Practice Problems", d.weaknesses[i])
       /\ seq[h + 2 * W + 1] = Step("Core Chapter Concepts", "")
       /\ seq[h + 2 * W + 2] = Step("Advanced Applications", "")
       /\ seq[h + 2 * W + 3] = Step("Chapter Assessment", "")

C13_Witness ==
  /\ PathStored
  /\ Len(LastDiagnostic.knowledge_gaps) = 1
  /\ Len(LastDiagnostic.prerequisite_concepts) = 2
  /\ Len(LastDiagnostic.weaknesses) = 2
  /\ Len(StoredPath.recommended_sequence) = 10

\* C14: the stored estimate is min(21, 7 + 2W + 3G + b), b = 5 below score
\* 30, 3 below score 60, else 0; every stored estimate is within 7..21; no
\* weakness, no gap and score 95 give 7; 3 weaknesses, 2 gaps and score 20
\* give 21.
C14_CompletionDays ==
  /\ \A r \in learning_paths : r.estimated_completion_days \in 7..21
  /\ PathStored =>
       LET d == LastDiagnostic
           W == Len(d.weaknesses)
           G == Len(d.knowledge_gaps)
           b == IF d.score_percentage < 30 THEN 5
                ELSE IF d.score_percentage < 60 THEN 3 ELSE 0
           sum == 7 + 2 * W + 3 * G + b
           days == StoredPath.estimated_completion_days
       IN /\ days = IF sum > 21 THEN 21 ELSE sum
          /\ (W = 0 /\ G = 0 /\ d.score_percentage = 95) => days = 7
          /\ (W = 3 /\ G = 2 /\ d.score_percentage = 20) => days = 21

C14_Witness ==
  /\ PathStored
  /\ Len(LastDiagnostic.weaknesses) = 3
  /\ Len(LastDiagnostic.knowledge_gaps) = 2
  /\ LastDiagnostic.score_percentage = 20
  /\ StoredPath.estimated_completion_days = 21

\* C15: there is at most one learning path per (user, chapter), and once a
\* later diagnostic has been saved for a pair, the pair's row is the path of
\* that diagnostic and of nothing else.
C15_SecondDiagnosticReplaces ==
  /\ \A r1 \in learning_paths, r2 \in learning_paths :
       (r1.user_id = r2.user_id /\ r1.chapter_id = r2.chapter_id) => r1 = r2
  /\ (lastSave # {} /\ LastResult \notin {"insert_error", "db_error"}) =>
       \A r \in PathsOf(LastDiagnostic.user_id, LastDiagnostic.chapter_id) :
         /\ r.recommended_sequence = GenerateLearningSequence(LastDiagnostic)
         /\ r.path_data.focus_areas = LastDiagnostic.weaknesses
         /\ r.prerequisites = LastDiagnostic.prerequisite_concepts
         /\ r.estimated_completion_days = EstimateCompletionTime(LastDiagnostic)

\* ------------------------------------------- claims on the progress report
LastReport == CHOOSE x \in lastReport : TRUE
Returned1 == lastReport # {} /\ LastReport.result = "ok"
TheReport == CHOOSE r \in LastReport.report : TRUE

SupportedTypes == {"daily", "weekly", "monthly", "chapter"}

\* the rows of the user inside the window of the last call
WindowAttempts ==
  {i \in DOMAIN attempt_rows :
     /\ attempt_rows[i].user_id = "u1"
     /\ attempt_rows[i].age <= Window(LastReport.reportType)}
WindowCorrect == {i \in WindowAttempts : attempt_rows[i].is_correct}
WindowSessions ==
  {i \in DOMAIN study_sessions :
     /\ study_sessions[i].user_id = "u1"
     /\ study_sessions[i].age <= Window(LastReport.reportType)}

RECURSIVE SumOfDurations(_)
SumOfDurations(values) ==
  IF values = {} THEN 0
  ELSE LET v == CHOOSE x \in values : TRUE
       IN v * Cardinality({i \in WindowSessions :
                             study_sessions[i].duration_minutes = v})
          + SumOfDurations(values \ {v})

UserMastery == {m \in mastery_rows : m.user_id = "u1"}

RECURSIVE SumOfLevels(_)
SumOfLevels(values) ==
  IF values = {} THEN 0
  ELSE LET v == CHOOSE x \in values : TRUE
       IN v * Cardinality({m \in UserMastery : m.mastery_level = v})
          + SumOfLevels(values \ {v})

\* C16: a call with a kind other than daily, weekly, monthly or chapter fails
\* and stores no report; every stored report is of one of the four kinds.
C16_UnsupportedKindFails ==
  /\ (lastReport # {} /\ LastReport.reportType \notin SupportedTypes) =>
       LastReport.result # "ok" /\ progress_reports = {}
  /\ \A r \in progress_reports : r.report_type \in SupportedTypes

C21_ReportRecommendations ==
  Returned1 =>
    LET recs == TheReport.recommendations
        weak == TheReport.areas_for_improvement
    IN /\ Len(recs) = IF weak = <<>> THEN 2 ELSE 4
       /\ recs[1] = Message("Continue your daily practice routine", 0, 0, "")
       /\ recs[2] = Message("Great job on maintaining focus", 0, 0, "")
       /\ weak # <<>> =>
            /\ recs[3] = Message("Focus extra attention on", 0, 0, weak[1])
            /\ recs[4] = Message("Try breaking down", 0, 0, weak[1])

C21_Witness ==
  /\ Returned1
  /\ LastReport.oracle.kind = "network_error"
  /\ Len(TheReport.areas_for_improvement) = 2
  /\ Len(TheReport.recommendations) = 4
  /\ TheReport.recommendations[4].topic = TheReport.areas_for_improvement[1]

\* --------------------------------------- claims on the diagnostic lookups
TheRead == CHOOSE x \in lastRead : TRUE
RowsRead == SelectDiagnostics(chapter_diagnostics, "u1", TheRead.chapter_id)

\* C22: once one or more diagnostics are stored for a (user, chapter),
\* getChapterDiagnostic returns a record, and its score, weaknesses and gaps
\* are those of a diagnostic stored for the pair.
C22_RoundTrip ==
  (/\ lastRead # {}
   /\ TheRead.op = "getChapterDiagnostic"
   /\ TheRead.dbOk
   /\ RowsRead # {}) =>
    /\ TheRead.data # {}
    /\ \A d \in TheRead.data : \E i \in RowsRead :
         /\ d.score_percentage = chapter_diagnostics[i].score_percentage
         /\ d.weaknesses = chapter_diagnostics[i].weaknesses
         /\ d.knowledge_gaps = chapter_diagnostics[i].knowledge_gaps

\* C23: hasUserTakenDiagnostic returns true iff at least one diagnostic is
\* stored for the (user, chapter), however many there are.
C23_TakenIffStored ==
  (/\ lastRead # {}
   /\ TheRead.op = "hasUserTakenDiagnostic"
   /\ TheRead.dbOk) =>
    (TheRead.found <=> RowsRead # {})

\* ------------------------------------------------ claims on the sessions
\* C24: a session is created with no ended_at and duration 0, its first
\* endStudySession sets ended_at, the duration and the counters, and no later
\* endStudySession changes them.
C24_ClosedOnce ==
  \A i \in DOMAIN session_rows :
    LET row == session_rows[i]
    IN /\ firstClose[row.id] = {} =>
            row.ended_at = NoTime /\ row.duration_minutes = 0
       /\ \A c \in firstClose[row.id] :
            /\ row.ended_at = c.ended_at
            /\ row.duration_minutes = c.duration_minutes
            /\ row.questions_attempted = c.questions_attempted
            /\ row.questions_correct = c.questions_correct


\* ------------------------------------------- claims on failure handling
LastOracle == (CHOOSE x \in lastSave : TRUE).oracle
OracleFailedInSave == lastSave # {} /\ LastOracle \in {"network", "malformed"}

\* C25: when the recommendation request of saveChapterDiagnostic fails (the
\* fetch fails, or the reply is malformed or not an array), the failure stays
\* inside generateAIRecommendations: the diagnostic is the last row of
\* chapter_diagnostics, the outcome of the call is the outcome of the upsert
\* of createLearningPath, and when that upsert succeeded the learning path of
\* the diagnostic is stored and the call returns without error.
C25_OracleFailureContained ==
  OracleFailedInSave =>
    /\ chapter_diagnostics # <<>>
    /\ chapter_diagnostics[Len(chapter_diagnostics)] = LastDiagnostic
    /\ LastResult \in {"none", "23505", "db_error"}
    /\ LastResult = "none" =>
         \E r \in PathsOf(LastDiagnostic.user_id, LastDiagnostic.chapter_id) :
           /\ r.recommended_sequence = GenerateLearningSequence(LastDiagnostic)
           /\ r.estimated_completion_days = EstimateCompletionTime(LastDiagnostic)

C25_Witness ==
  /\ OracleFailedInSave
  /\ LastOracle = "malformed"
  /\ LastResult = "none"
  /\ Len(chapter_diagnostics) = 2
  /\ ai_recommendations = 0
  /\ Cardinality(learning_paths) = 2

\* C26: a failed primary insert is thrown to the caller as it is and nothing
\* derived is written: a recordQuestionAttempt whose insert into
\* question_attempts fails throws that error, never enters
\* updateConceptMastery and leaves concept_mastery as it was; a
\* saveChapterDiagnostic whose insert into chapter_diagnostics fails throws
\* that error and leaves ai_recommendations and learning_paths as they were.
C26_PrimaryFailure ==
  [][/\ (/\ entry = "recordQuestionAttempt"
         /\ calls' = calls + 1
         /\ question_attempts' = question_attempts) =>
          /\ concept_mastery' = concept_mastery
          /\ pc' = pc
          /\ lastReturn'.op = "record"
          /\ lastReturn'.result = "db_error"
          /\ lastReturn'.failed = {}
     /\ (/\ savesLeft' = savesLeft - 1
         /\ lastRead' = {}
         /\ chapter_diagnostics' = chapter_diagnostics) =>
          /\ ai_recommendations' = ai_recommendations
          /\ learning_paths' = learning_paths
          /\ lastSave' # {}
          /\ (CHOOSE x \in lastSave' : TRUE).result = "insert_error"]_vars

\* a recordQuestionAttempt on a concept that has a mastery row failed at its
\* insert
C26_Witness ==
  /\ lastReturn.op = "record"
  /\ lastReturn.result = "db_error"
  /\ lastReturn.failed = {}
  /\ lastReturn.concept = "c1"
  /\ \E r \in concept_mastery : r.concept = "c1" /\ r.attempts_count = 2
  /\ \A p \in Procs : pc[p] = "idle"

\* C27: a call of generateProgressReport that returns adds exactly one row to
\* progress_reports and returns that row; a call whose insert fails throws
\* and returns no report; either way the rows of question_attempts,
\* study_sessions, concept_mastery and the earlier rows of progress_reports
\* stay as they were.
C27_OneReportPerCall ==
  [][reportsLeft' = reportsLeft - 1 =>
       LET r == CHOOSE x \in lastReport' : TRUE
       IN /\ lastReport' # {}
          /\ attempt_rows' = attempt_rows
          /\ study_sessions' = study_sessions
          /\ mastery_rows' = mastery_rows
          /\ question_attempts' = question_attempts
          /\ concept_mastery' = concept_mastery
          /\ session_rows' = session_rows
          /\ progress_reports \subseteq progress_reports'
          /\ r.result \in {"ok", "db_error"}
          /\ r.result = "ok" =>
               /\ Cardinality(r.report) = 1
               /\ r.report \cap progress_reports = {}
               /\ progress_reports' = progress_reports \cup r.report
          /\ r.result = "db_error" =>
               /\ r.report = {}
               /\ progress_reports' = progress_reports]_vars

\* a second report was stored next to the first, which is still there
C27_Witness ==
  /\ lastReport # {}
  /\ (CHOOSE x \in lastReport : TRUE).result = "ok"
  /\ Cardinality(progress_reports) = 2
  /\ (CHOOSE x \in lastReport : TRUE).report \subseteq progress_reports
  /\ \E a \in progress_reports : a.id = 1 /\ a.report_type = "weekly"
  /\ \E b \in progress_reports : b.id = 2 /\ b.report_type = "daily"

\* ------------------------------------------- claims on the mastery rows
\* C28: once the calls on a triple have returned, the row's
\* time_to_master_minutes is the sum of floor(t/60) over the attempts made on
\* the triple: floor(t1/60) after the first, floor(ti/60) more after each
\* later one.
C28_MinutesAreTheSum ==
  \A k \in Keys :
    (InFlight(k) = {} /\ okCalls[k].n > 0) =>
      \E r \in RowsOf(k) : r.time_to_master_minutes = okCalls[k].minutes

\* the persisted question_attempts rows of key k, all and the correct ones
AttemptsOn(k, correctOnly) ==
  LET row(ok) == [user_id |-> k[1], chapter_id |-> k[2], concept |-> k[3],
                  is_correct |-> ok]
  IN question_attempts[row(TRUE)]
       + (IF correctOnly THEN 0 ELSE question_attempts[row(FALSE)])

\* C29: whenever no recordQuestionAttempt call is running, every triple with
\* persisted attempts has a mastery row whose attempts_count is their number
\* and whose correct_attempts is the number of correct ones, and a triple
\* without attempts has no mastery row, also after calls in which a write
\* failed.
C29_MasteryMatchesAttempts ==
  (entry = "recordQuestionAttempt" /\ \A p \in Procs : pc[p] = "idle") =>
    \A k \in Keys :
      IF AttemptsOn(k, FALSE) = 0 THEN RowsOf(k) = {}
      ELSE Counts(k, AttemptsOn(k, FALSE), AttemptsOn(k, TRUE))

\* ------------------------------------------- claims on the score
RECURSIVE SumCorrect(_)
SumCorrect(scores) ==
  IF scores = <<>> THEN 0
  ELSE Head(scores).correct + SumCorrect(Tail(scores))

\* C30: whatever the lengths of the answers list and of the bank, the result
\* has 0 <= score <= total_questions and the correct counts of the topics add
\* up to score.
C30_ScoreWithinTotal ==
  \A run \in Runs :
    Done(run) =>
      /\ 0 <= ResultOf(run).score
      /\ ResultOf(run).score <= ResultOf(run).total_questions
      /\ SumCorrect(TopicScores(answers, questions)) = ResultOf(run).score
====
